---------------------------- MODULE Spec2Model ----------------------------
(***************************************************************************)
(* A model of the procurement-request intake tool (src/src/app.py and      *)
(* src/src/extraction_schema.py): the upload handler new_request, the text *)
(* extractor extract_text_from_pdf, the staged extraction                  *)
(* extract_data_via_ai (validate, repair, default) and the price           *)
(* normaliser normalize_price.                                             *)
(*                                                                         *)
(* Text is a sequence of chunks.  A chunk is a string that the code never  *)
(* looks inside: a structural JSON token, the code fence (three            *)
(* backquotes, written "<fence>" here), the word "json", a blank, a word.  *)
(* No chunk but the fence holds a backquote and no chunk but "json" holds, *)
(* or joins with its neighbours into, the word json, so that Python's      *)
(* str.split(fence), str.replace("json", "") and str.strip() act on a      *)
(* chunk sequence exactly as they act on the string the chunks spell.      *)
(* Prices are sequences of characters.                                     *)
(***************************************************************************)
EXTENDS Integers, Sequences, FiniteSets, TLC

VARIABLES
    pc,          \* position of the upload request in new_request / extract_data_via_ai
    doc,         \* the uploaded offer file
    clean_text,  \* new_request: clean_text = extract_text_from_pdf(raw_bytes)
    sent,        \* what the model service answered to the one call (the input of the run)
    content,     \* extract_data_via_ai: content, after the fence removal
    ret,         \* the value extract_data_via_ai returned
    data,        \* new_request: the form data handed to the template
    modelCalls,  \* number of client.chat.completions.create calls issued
    validations, \* number of ProcurementData.model_validate_json attempts
    stages,      \* the stages of extract_data_via_ai entered, in order
    price_in,    \* normalize_price: the argument
    price_out,   \* normalize_price: the value returned
    price_pc,    \* normalize_price: "ready" before the call, "done" after it
    requests,        \* table requests, committed: row request_id -> its status
    status_history,  \* table status_history, committed: the rows by history_id
    db_lock,         \* the update_status call holding SQLite's write lock, 0 for none
    txn,             \* the tables as the open write transaction has them
    calls            \* the update_status calls: position, req_id, new_status, user

vars == <<pc, doc, clean_text, sent, content, ret, data, modelCalls,
          validations, stages, price_in, price_out, price_pc,
          requests, status_history, db_lock, txn, calls>>

dbVars == <<requests, status_history, db_lock, txn, calls>>

(***************************************************************************)
(* Bounds of the model.                                                    *)
(***************************************************************************)
MaxPages == 4

MaxPriceLen == 5

(***************************************************************************)
(* Python strings as chunk sequences.                                      *)
(***************************************************************************)
\* the three backquotes of a markdown code fence
FENCE == "<fence>"

QUOTE == "\""

IsSpace(c) == c \in {" ", "\n"}

RECURSIVE LStrip(_)
LStrip(s) == IF s # <<>> /\ IsSpace(Head(s)) THEN LStrip(Tail(s)) ELSE s

RECURSIVE RStrip(_)
RStrip(s) ==
    IF s # <<>> /\ IsSpace(s[Len(s)]) THEN RStrip(SubSeq(s, 1, Len(s) - 1)) ELSE s

\* str.strip()
Strip(s) == RStrip(LStrip(s))

\* c in s, for a one-chunk (or one-character) c
Contains(s, c) == \E i \in 1..Len(s) : s[i] = c

\* s.replace(c, ""), for a one-chunk (or one-character) c
Remove(s, c) == SelectSeq(s, LAMBDA x : x # c)

\* s.replace(c, d), for one-character c and d
Replace(s, c, d) == [i \in 1..Len(s) |-> IF s[i] = c THEN d ELSE s[i]]

\* s.rfind(c) + 1: the last position of c in s, 0 when there is none
RFind(s, c) ==
    IF Contains(s, c) THEN CHOOSE i \in 1..Len(s) : s[i] = c /\ \A j \in (i+1)..Len(s) : s[j] # c
    ELSE 0

\* s.find(c) + 1 from position i on, 0 when there is none
FindFrom(s, c, i) ==
    IF \E j \in i..Len(s) : s[j] = c
    THEN CHOOSE j \in i..Len(s) : s[j] = c /\ \A k \in i..(j-1) : s[k] # c
    ELSE 0

\* s.split(c): the pieces of s between the occurrences of chunk c
RECURSIVE Split(_, _)
Split(s, c) ==
    LET j == FindFrom(s, c, 1) IN
    IF j = 0 THEN <<s>>
    ELSE <<SubSeq(s, 1, j - 1)>> \o Split(SubSeq(s, j + 1, Len(s)), c)

\* "".join(chunks): the Python string a chunk sequence spells
RECURSIVE Flatten(_)
Flatten(s) == IF s = <<>> THEN "" ELSE Head(s) \o Flatten(Tail(s))

(***************************************************************************)
(* JSON values, and the Python values json.loads makes of them: a string   *)
(* (its chunks), a number (its value), null/None, a list, a dict (a        *)
(* function from key strings to values).                                   *)
(***************************************************************************)
Str(s) == [t |-> "str", v |-> s]

Num(n) == [t |-> "num", v |-> n]

Null == [t |-> "null", v |-> 0]

Arr(a) == [t |-> "arr", v |-> a]

Obj(f) == [t |-> "obj", v |-> f]

EmptyDict == <<>>

\* k in d, for a dict d
Has(d, k) == d.t = "obj" /\ k \in DOMAIN d.v

\* d[k] = x on a dict: the key is added or its value replaced
DictSet(f, k, x) == [j \in DOMAIN f \cup {k} |-> IF j = k THEN x ELSE f[j]]

\* d.pop(k) on a dict: what is left of d
DictDel(f, k) == [j \in DOMAIN f \ {k} |-> f[j]]

\* the number tokens of the responses, and the numbers they denote
NumVal == ("0.0" :> 0) @@ ("5" :> 5) @@ ("1000.0" :> 1000) @@ ("5000.0" :> 5000)

NumTok(n) == CHOOSE tok \in DOMAIN NumVal : NumVal[tok] = n

(***************************************************************************)
(* The text of a JSON document.  A document to serialise is a tree whose   *)
(* objects are sequences of <<key, value>> pairs, in the order written.    *)
(***************************************************************************)
PObj(pairs) == [t |-> "pobj", v |-> pairs]

RECURSIVE Render(_)
RECURSIVE RenderList(_), RenderPairs(_)
Render(x) ==
    CASE x.t = "str"  -> <<QUOTE>> \o x.v \o <<QUOTE>>
      [] x.t = "num"  -> <<NumTok(x.v)>>
      [] x.t = "null" -> <<"null">>
      [] x.t = "arr"  -> <<"[">> \o RenderList(x.v) \o <<"]">>
      [] x.t = "pobj" -> <<"{">> \o RenderPairs(x.v) \o <<"}">>

RenderList(a) ==
    IF a = <<>> THEN <<>>
    ELSE IF Len(a) = 1 THEN Render(a[1])
    ELSE Render(a[1]) \o <<",">> \o RenderList(Tail(a))

RenderPairs(ps) ==
    IF ps = <<>> THEN <<>>
    ELSE LET one == <<QUOTE, ps[1][1], QUOTE, ":">> \o Render(ps[1][2]) IN
         IF Len(ps) = 1 THEN one ELSE one \o <<",">> \o RenderPairs(Tail(ps))

(***************************************************************************)
(* json.loads / the JSON reader of model_validate_json: a recursive        *)
(* descent over the chunks.  A result is [ok, val, next]: next is the      *)
(* position after the value read.                                          *)
(***************************************************************************)
ParseFail == [ok |-> FALSE, val |-> Null, next |-> 0]

ParseOk(x, n) == [ok |-> TRUE, val |-> x, next |-> n]

RECURSIVE SkipSpace(_, _)
SkipSpace(s, i) == IF i <= Len(s) /\ IsSpace(s[i]) THEN SkipSpace(s, i + 1) ELSE i

RECURSIVE ParseValue(_, _)
RECURSIVE ParseElements(_, _, _), ParseMembers(_, _, _)
ParseValue(s, i0) ==
    LET i == SkipSpace(s, i0) IN
    IF i > Len(s) THEN ParseFail
    ELSE IF s[i] = QUOTE THEN
        LET j == FindFrom(s, QUOTE, i + 1) IN
        IF j = 0 THEN ParseFail ELSE ParseOk(Str(SubSeq(s, i + 1, j - 1)), j + 1)
    ELSE IF s[i] \in DOMAIN NumVal THEN ParseOk(Num(NumVal[s[i]]), i + 1)
    ELSE IF s[i] = "null" THEN ParseOk(Null, i + 1)
    ELSE IF s[i] = "[" THEN
        LET k == SkipSpace(s, i + 1) IN
        IF k <= Len(s) /\ s[k] = "]" THEN ParseOk(Arr(<<>>), k + 1)
        ELSE ParseElements(s, i + 1, <<>>)
    ELSE IF s[i] = "{" THEN
        LET k == SkipSpace(s, i + 1) IN
        IF k <= Len(s) /\ s[k] = "}" THEN ParseOk(Obj(EmptyDict), k + 1)
        ELSE ParseMembers(s, i + 1, EmptyDict)
    ELSE ParseFail

ParseElements(s, i, acc) ==
    LET r == ParseValue(s, i) IN
    IF ~r.ok THEN ParseFail
    ELSE LET k == SkipSpace(s, r.next) IN
         IF k > Len(s) THEN ParseFail
         ELSE IF s[k] = "," THEN ParseElements(s, k + 1, Append(acc, r.val))
         ELSE IF s[k] = "]" THEN ParseOk(Arr(Append(acc, r.val)), k + 1)
         ELSE ParseFail

ParseMembers(s, i, acc) ==
    LET k0 == SkipSpace(s, i) IN
    IF k0 > Len(s) \/ s[k0] # QUOTE THEN ParseFail
    ELSE LET key == ParseValue(s, k0) IN
         IF ~key.ok THEN ParseFail
         ELSE LET c == SkipSpace(s, key.next) IN
              IF c > Len(s) \/ s[c] # ":" THEN ParseFail
              ELSE LET r == ParseValue(s, c + 1) IN
                   IF ~r.ok THEN ParseFail
                   ELSE LET k == SkipSpace(s, r.next)
                            d == DictSet(acc, Flatten(key.val.v), r.val) IN
                        IF k > Len(s) THEN ParseFail
                        ELSE IF s[k] = "," THEN ParseMembers(s, k + 1, d)
                        ELSE IF s[k] = "}" THEN ParseOk(Obj(d), k + 1)
                        ELSE ParseFail

\* json.loads(s): [ok, val]; ok is FALSE where json.loads raises
json_loads(s) ==
    LET r == ParseValue(s, 1) IN
    IF r.ok /\ SkipSpace(s, r.next) = Len(s) + 1
    THEN [ok |-> TRUE, val |-> r.val]
    ELSE [ok |-> FALSE, val |-> Null]

(***************************************************************************)
(* src/src/extraction_schema.py: the schema.  pydantic reads the JSON,     *)
(* wants an object, checks each declared field (a str field takes a JSON   *)
(* string only; a float field takes a JSON number or a numeric string),    *)
(* fills the defaults, ignores keys the class does not declare, and        *)
(* model_dump() returns the declared fields alone.                         *)
(***************************************************************************)
StrOk(d, k) == k \in DOMAIN d /\ d[k].t = "str"

FloatOk(d, k) ==
    /\ k \in DOMAIN d
    /\ \/ d[k].t = "num"
       \/ d[k].t = "str" /\ Flatten(d[k].v) \in DOMAIN NumVal

ToFloat(x) == IF x.t = "num" THEN x ELSE Num(NumVal[Flatten(x.v)])

OrderLineFields == {"description", "unit_price", "amount", "unit", "total_price"}

\* OrderLine: every field is required
OrderLineValid(x) ==
    /\ x.t = "obj"
    /\ StrOk(x.v, "description")
    /\ FloatOk(x.v, "unit_price")
    /\ FloatOk(x.v, "amount")
    /\ StrOk(x.v, "unit")
    /\ FloatOk(x.v, "total_price")

OrderLineDump(x) ==
    Obj([k \in OrderLineFields |->
            IF k \in {"description", "unit"} THEN x.v[k] ELSE ToFloat(x.v[k])])

ProcurementDataFields ==
    {"requestor_name", "title", "vendor_name", "vat_id", "total_cost",
     "department", "extracted_description_text", "order_lines"}

\* ProcurementData: requestor_name and department have defaults
ProcurementDataValid(x) ==
    /\ x.t = "obj"
    /\ "requestor_name" \in DOMAIN x.v => StrOk(x.v, "requestor_name")
    /\ StrOk(x.v, "title")
    /\ StrOk(x.v, "vendor_name")
    /\ StrOk(x.v, "vat_id")
    /\ FloatOk(x.v, "total_cost")
    /\ "department" \in DOMAIN x.v => StrOk(x.v, "department")
    /\ StrOk(x.v, "extracted_description_text")
    /\ "order_lines" \in DOMAIN x.v
    /\ x.v["order_lines"].t = "arr"
    /\ \A i \in 1..Len(x.v["order_lines"].v) : OrderLineValid(x.v["order_lines"].v[i])

ProcurementDataDump(x) ==
    Obj([k \in ProcurementDataFields |->
            CASE k = "requestor_name" ->
                    IF k \in DOMAIN x.v THEN x.v[k] ELSE Str(<<"Vladimir Keil">>)
              [] k = "department" ->
                    IF k \in DOMAIN x.v THEN x.v[k] ELSE Str(<<"Operations">>)
              [] k = "total_cost" -> ToFloat(x.v[k])
              [] k = "order_lines" ->
                    Arr([i \in 1..Len(x.v[k].v) |-> OrderLineDump(x.v[k].v[i])])
              [] OTHER -> x.v[k]])

\* ProcurementData.model_validate_json(content).model_dump(): ok is FALSE
\* where it raises
model_validate_json(text) ==
    LET j == json_loads(text) IN
    IF j.ok /\ ProcurementDataValid(j.val)
    THEN [ok |-> TRUE, val |-> ProcurementDataDump(j.val)]
    ELSE [ok |-> FALSE, val |-> Null]

(***************************************************************************)
(* src/src/app.py                                                          *)
(***************************************************************************)
\* The official master list of 50 Commodity Groups
COMMODITY_GROUPS ==
    <<"Accommodation Rentals", "Membership Fees", "Workplace Safety", "Consulting",
      "Financial Services", "Fleet Management", "Recruitment Services",
      "Professional Development", "Miscellaneous Services", "Insurance",
      "Electrical Engineering", "Facility Management Services", "Security",
      "Renovations", "Office Equipment", "Energy Management", "Maintenance",
      "Cafeteria and Kitchenettes", "Cleaning", "Audio and Visual Production",
      "Books/Videos/CDs", "Printing Costs", "Software Development for Publishing",
      "Material Costs", "Shipping for Production", "Digital Product Development",
      "Pre-production", "Post-production Costs", "Hardware", "IT Services",
      "Software", "Courier, Express, and Postal Services",
      "Warehousing and Material Handling", "Transportation Logistics",
      "Delivery Services", "Advertising", "Outdoor Advertising",
      "Marketing Agencies", "Direct Mail", "Customer Communication",
      "Online Marketing", "Events", "Promotional Materials",
      "Warehouse and Operational Equipment", "Production Machinery", "Spare Parts",
      "Internal Transportation", "Production Materials", "Consumables",
      "Maintenance and Repairs">>

\* reader.pages[:3]
PAGE_LIMIT == 3

Min(a, b) == IF a < b THEN a ELSE b

\* the loop of extract_text_from_pdf over the first pages: a page with no
\* text adds nothing, any other adds its text and a newline
RECURSIVE PagesText(_)
PagesText(pages) ==
    IF pages = <<>> THEN <<>>
    ELSE (IF Head(pages) # <<>> THEN Head(pages) \o <<"\n">> ELSE <<>>)
         \o PagesText(Tail(pages))

\* extract_text_from_pdf returning text where it returns text.strip()
extract_text_from_pdf_unstripped(d) ==
    IF ~d.ok THEN <<>>
    ELSE PagesText(SubSeq(d.pages, 1, Min(PAGE_LIMIT, Len(d.pages))))

\* extract_text_from_pdf(file_bytes): "" when the reader raises
extract_text_from_pdf(d) ==
    IF ~d.ok THEN <<>>
    ELSE Strip(PagesText(SubSeq(d.pages, 1, Min(PAGE_LIMIT, Len(d.pages)))))

\* content = response...content.strip(), and the removal of a code fence
CleanContent(raw) ==
    LET c == Strip(raw) IN
    IF Contains(c, FENCE) THEN Strip(Remove(Split(c, FENCE)[2], "json")) ELSE c

\* Stage B, the manual cleanup after json.loads: ok is FALSE where it raises.
\* "items" in raw_data is a key test on a dict, an element test on a list, a
\* substring test on a str and a TypeError on a number or None; pop("items")
\* raises on a list and on a str.
ManualCleanup(text) ==
    LET j == json_loads(text)
        raw_data == j.val
        Raised == [ok |-> FALSE, val |-> Null]
    IN
    IF ~j.ok THEN Raised
    ELSE CASE raw_data.t = "obj" ->
                IF "items" \in DOMAIN raw_data.v
                THEN [ok |-> TRUE,
                      val |-> Obj(DictSet(DictDel(raw_data.v, "items"),
                                          "order_lines", raw_data.v["items"]))]
                ELSE [ok |-> TRUE, val |-> raw_data]
           [] raw_data.t = "arr" ->
                IF \E i \in 1..Len(raw_data.v) : raw_data.v[i] = Str(<<"items">>)
                THEN Raised
                ELSE [ok |-> TRUE, val |-> raw_data]
           [] raw_data.t = "str" ->
                IF Contains(raw_data.v, "items") THEN Raised
                ELSE [ok |-> TRUE, val |-> raw_data]
           [] OTHER -> Raised

\* Stage C: the record returned when the cleanup raised too
ErrorRecord ==
    Obj(("requestor_name" :> Str(<<"Vladimir Keil">>))
        @@ ("title" :> Str(<<"Error">>))
        @@ ("vendor_name" :> Str(<<"Unknown">>))
        @@ ("total_cost" :> Num(0))
        @@ ("order_lines" :> Arr(<<>>)))

\* extract_data_via_ai from the response on, lines 104-119: what it returns
ExtractReturn(raw) ==
    LET c == CleanContent(raw)
        a == model_validate_json(c)
        b == ManualCleanup(c)
    IN IF a.ok THEN a.val ELSE IF b.ok THEN b.val ELSE ErrorRecord

\* new_request: the default form data
FormDefaults ==
    ("requestor_name" :> Str(<<"Vladimir Keil">>))
    @@ ("title" :> Str(<<>>))
    @@ ("vendor_name" :> Str(<<>>))
    @@ ("vat_id" :> Str(<<>>))
    @@ ("total_cost" :> Num(0))
    @@ ("department" :> Str(<<"Operations">>))
    @@ ("order_lines" :> Arr(<<>>))
    @@ ("commodity_group" :> Str(<<>>))

\* Python's truth value of what extract_data_via_ai returned
Truthy(x) ==
    CASE x.t = "obj" -> DOMAIN x.v # {}
      [] x.t \in {"arr", "str"} -> x.v # <<>>
      [] x.t = "num" -> x.v # 0
      [] OTHER -> FALSE

\* data.update(ai_data), for a dict ai_data
DictUpdate(d, ai) ==
    [k \in DOMAIN d \cup DOMAIN ai |-> IF k \in DOMAIN ai THEN ai[k] ELSE d[k]]

(***************************************************************************)
(* The inputs: the uploaded documents and the answers of the model         *)
(* service.                                                                *)
(***************************************************************************)
MaxLines == 2

\* what page.extract_text() gives for a page: nothing, blanks, or words
PageTexts == {<<>>, <<" ">>, <<"Offer", " ", "5", "\n">>}

RECURSIVE SeqsUpTo(_, _)
SeqsUpTo(S, n) ==
    IF n = 0 THEN {<<>>}
    ELSE LET shorter == SeqsUpTo(S, n - 1) IN
         shorter \cup {Append(q, x) : q \in {r \in shorter : Len(r) = n - 1}, x \in S}

\* an upload: a file the reader cannot parse, or its pages
Documents ==
    {[ok |-> FALSE, pages |-> <<>>]}
    \cup {[ok |-> TRUE, pages |-> ps] : ps \in SeqsUpTo(PageTexts, MaxPages)}

NoDocument == [ok |-> FALSE, pages |-> <<"none">>]

Titles == {<<"Laptops">>, <<"json", " ", "export">>, <<"A", FENCE, "B">>}

Groups == {"", "Hardware", "Gadgets"}

LineKeys == {"order_lines", "items", "both", "neither"}

LineStyles == {"correct", "misnamed", "both"}

PartName(i) == <<"Part", ToString(i)>>

\* one order line as the model service writes it
Line(style, i) ==
    LET right == <<<<"description", Str(PartName(i))>>, <<"unit_price", Num(1000)>>,
                   <<"amount", Num(5)>>, <<"unit", Str(<<"pcs">>)>>,
                   <<"total_price", Num(5000)>>>>
        wrong == <<<<"item", Str(PartName(i))>>, <<"price", Num(1000)>>,
                   <<"quantity", Num(5)>>, <<"unit", Str(<<"pcs">>)>>,
                   <<"total", Num(5000)>>>>
        mixed == <<<<"description", Str(PartName(i))>>, <<"item", Str(<<"Other">>)>>,
                   <<"unit_price", Num(1000)>>, <<"price", Num(5)>>,
                   <<"amount", Num(5)>>, <<"quantity", Num(1000)>>,
                   <<"total", Num(0)>>>>
    IN PObj(CASE style = "correct" -> right
              [] style = "misnamed" -> wrong
              [] style = "both" -> mixed)

Lines(style, n) == Arr([i \in 1..n |-> Line(style, i)])

\* a response object: group "" writes no commodity_group, req writes a
\* requestor_name and a department
Payload(title, group, req, key, style, n) ==
    PObj((IF req THEN <<<<"requestor_name", Str(<<"Ada">>)>>,
                        <<"department", Str(<<"IT">>)>>>> ELSE <<>>)
         \o <<<<"title", Str(title)>>, <<"vendor_name", Str(<<"Acme">>)>>,
              <<"vat_id", Str(<<"DE1">>)>>, <<"total_cost", Num(5000)>>,
              <<"extracted_description_text", Str(<<"Parts">>)>>>>
         \o (CASE key = "order_lines" -> <<<<"order_lines", Lines(style, n)>>>>
               [] key = "items" -> <<<<"items", Lines(style, n)>>>>
               [] key = "both" -> <<<<"items", Lines("misnamed", n)>>,
                                    <<"order_lines", Lines(style, 1)>>>>
               [] key = "neither" -> <<>>)
         \o (IF group = "" THEN <<>> ELSE <<<<"commodity_group", Str(<<group>>)>>>>))

\* responses that satisfy the schema of extraction_schema.py
ValidPayloads ==
    {Payload(t, g, r, "order_lines", "correct", 1) :
        t \in Titles, g \in Groups, r \in BOOLEAN}

\* responses with the order lines under other names
LoosePayloads ==
    {Payload(<<"Laptops">>, "Hardware", FALSE, k, st, n) :
        k \in LineKeys, st \in LineStyles, n \in 0..MaxLines}

\* responses that are JSON of another shape
OddPayloads ==
    {PObj(<<>>),
     PObj(<<<<"title", Num(5)>>, <<"vat_id", Null>>>>),
     PObj(<<<<"title", Str(<<"Laptops">>)>>, <<"vendor_name", Str(<<"Acme">>)>>,
            <<"vat_id", Str(<<"DE1">>)>>, <<"total_cost", Str(<<"5000.0">>)>>,
            <<"extracted_description_text", Str(<<>>)>>, <<"order_lines", Arr(<<>>)>>>>),
     Arr(<<>>), Arr(<<Num(5)>>), Arr(<<Str(<<"items">>)>>),
     Str(<<"Sorry">>), Str(<<"no", " ", "items">>), Num(5), Null}

Wraps == {"bare", "json fence", "fence", "chatty"}

\* the response text: the JSON alone, or inside a code fence
Wrap(w, body) ==
    CASE w = "bare" -> body
      [] w = "json fence" -> <<FENCE, "json", "\n">> \o body \o <<"\n", FENCE>>
      [] w = "fence" -> <<FENCE, "\n">> \o body \o <<"\n", FENCE>>
      [] w = "chatty" -> <<"Here", " ", "it", " ", "is", "\n", FENCE, "json", "\n">>
                         \o body \o <<"\n", FENCE, "\n", "Done">>

Answer(kind, p, w) ==
    [kind |-> kind, payload |-> p, wrap |-> w, raw |-> Wrap(w, Render(p))]

\* responses that are no JSON at all
Garbage ==
    {[kind |-> "garbage", payload |-> Null, wrap |-> "bare", raw |-> r] :
        r \in {<<>>, <<"Sorry">>, <<"{", QUOTE, "title", QUOTE, ":">>,
               <<FENCE, "json", "\n", "{", QUOTE, "title", QUOTE>>}}

Responses ==
    {Answer("valid", p, w) : p \in ValidPayloads, w \in Wraps}
    \cup {Answer("loose", p, "bare") : p \in LoosePayloads}
    \cup {Answer("odd", p, w) : p \in OddPayloads, w \in {"bare", "json fence"}}
    \cup Garbage

NoResponse == [kind |-> "none", payload |-> Null, wrap |-> "bare", raw |-> <<>>]

CallFailed == [kind |-> "failed", payload |-> Null, wrap |-> "bare", raw |-> <<>>]

None == [t |-> "none", v |-> 0]

(***************************************************************************)
(* src/src/extraction_schema.py: normalize_price.  A price is a sequence   *)
(* of characters; a float is [mant, scale], the number mant / 10^scale     *)
(* with no trailing zero counted in scale.                                 *)
(***************************************************************************)
\* the character U+20AC
EURO_SIGN == "<euro>"

EUR == <<"E", "U", "R">>

\* s.replace(w, ""), for a word w of several characters
RECURSIVE RemoveWord(_, _)
RemoveWord(s, w) ==
    IF Len(s) < Len(w) THEN s
    ELSE IF SubSeq(s, 1, Len(w)) = w THEN RemoveWord(SubSeq(s, Len(w) + 1, Len(s)), w)
    ELSE <<Head(s)>> \o RemoveWord(Tail(s), w)

DigitVal == ("0" :> 0) @@ ("1" :> 1) @@ ("2" :> 2) @@ ("3" :> 3) @@ ("4" :> 4)
            @@ ("5" :> 5) @@ ("6" :> 6) @@ ("7" :> 7) @@ ("8" :> 8) @@ ("9" :> 9)

RECURSIVE IntOf(_)
IntOf(ds) == IF ds = <<>> THEN 0 ELSE 10 * IntOf(SubSeq(ds, 1, Len(ds) - 1)) + DigitVal[ds[Len(ds)]]

RECURSIVE Float(_, _)
Float(m, sc) ==
    IF sc > 0 /\ m % 10 = 0 THEN Float(m \div 10, sc - 1) ELSE [mant |-> m, scale |-> sc]

Zero == Float(0, 0)

\* float(s) for a string of digits, periods and other characters: ok is
\* FALSE where float raises ValueError
float(s) ==
    LET digits == Remove(s, ".") IN
    IF /\ digits # <<>>
       /\ \A i \in 1..Len(digits) : digits[i] \in DOMAIN DigitVal
       /\ Len(s) - Len(digits) <= 1
    THEN [ok |-> TRUE,
          val |-> Float(IntOf(digits), IF Contains(s, ".") THEN Len(s) - RFind(s, ".") ELSE 0)]
    ELSE [ok |-> FALSE, val |-> Zero]

\* the comparison of line 18 turned round
PeriodAfterComma(a) == RFind(a, ".") > RFind(a, ",")

\* price_str.rfind('.') < price_str.rfind(',')
PeriodBeforeComma(a) == RFind(a, ".") < RFind(a, ",")

\* line 14: the currency marks and the blanks around are dropped
StripCurrency(s) == Strip(RemoveWord(Remove(s, EURO_SIGN), EUR))

\* lines 17-23: the separators are settled
SettleSeparators(a) ==
    IF Contains(a, ",") /\ Contains(a, ".")
    THEN IF PeriodBeforeComma(a)
         THEN Replace(Remove(a, "."), ",", ".")
         ELSE Remove(a, ",")
    ELSE IF Contains(a, ",") THEN Replace(a, ",", ".")
    ELSE a

\* normalize_price(price_str); p.none is the argument None
normalize_price(p) ==
    IF p.none \/ p.s = <<>> THEN Zero
    ELSE LET r == float(Remove(SettleSeparators(StripCurrency(p.s)), " ")) IN
         IF r.ok THEN r.val ELSE Zero

PriceChars == {"1", "0", ",", ".", " "}

PriceInputs ==
    {[none |-> TRUE, s |-> <<>>]}
    \cup {[none |-> FALSE, s |-> pre \o body \o post] :
            pre \in {<<>>, <<EURO_SIGN>>, EUR \o <<" ">>},
            body \in SeqsUpTo(PriceChars, MaxPriceLen),
            post \in {<<>>, <<" ">> \o EUR, <<"x">>}}

(***************************************************************************)
(* The upload request: new_request with an offer_file, step by step.       *)
(***************************************************************************)
MaxCalls == 3

MaxRequests == 2

Calls == 1..MaxCalls

NoTxn == [requests |-> <<>>, status_history |-> <<>>]

IdleCall == [pc |-> "idle", req_id |-> 0, new_status |-> "", user |-> ""]

\* the database setup_database leaves, and no update_status call under way
dbIdle ==
    /\ requests = <<>>
    /\ status_history = <<>>
    /\ db_lock = 0
    /\ txn = NoTxn
    /\ calls = [c \in Calls |-> IdleCall]

priceIdle == price_in = [none |-> TRUE, s |-> <<>>] /\ price_out = Zero /\ price_pc = "off"

Init ==
    /\ pc = "idle"
    /\ doc = NoDocument
    /\ clean_text = <<>>
    /\ sent = NoResponse
    /\ content = <<>>
    /\ ret = None
    /\ data = FormDefaults
    /\ modelCalls = 0
    /\ validations = 0
    /\ stages = <<>>
    /\ priceIdle
    /\ dbIdle

\* new_request, lines 141-147 (and 152 when there is no text)
Upload(d) ==
    /\ pc = "idle"
    /\ doc' = d
    /\ clean_text' = extract_text_from_pdf(d)
    /\ pc' = IF clean_text' # <<>> THEN "call" ELSE "rendered"
    /\ UNCHANGED <<sent, content, ret, data, modelCalls, validations, stages,
                   price_in, price_out, price_pc, dbVars>>

\* extract_data_via_ai, lines 95-106: the call returns a response
ModelCallReturns(r) ==
    /\ pc = "call"
    /\ modelCalls' = modelCalls + 1
    /\ sent' = r
    /\ content' = CleanContent(r.raw)
    /\ pc' = "stageA"
    /\ UNCHANGED <<doc, clean_text, ret, data, validations, stages,
                   price_in, price_out, price_pc, dbVars>>

\* extract_data_via_ai, line 95: the call raises (transport error, timeout);
\* nothing catches it, in extract_data_via_ai or in new_request
ModelCallRaises ==
    /\ pc = "call"
    /\ modelCalls' = modelCalls + 1
    /\ sent' = CallFailed
    /\ pc' = "raised"
    /\ UNCHANGED <<doc, clean_text, content, ret, data, validations, stages,
                   price_in, price_out, price_pc, dbVars>>

\* lines 108-112
StageA ==
    /\ pc = "stageA"
    /\ validations' = validations + 1
    /\ stages' = Append(stages, "A")
    /\ LET r == model_validate_json(content) IN
       IF r.ok THEN ret' = r.val /\ pc' = "returned"
       ELSE ret' = ret /\ pc' = "stageB"
    /\ UNCHANGED <<doc, clean_text, sent, content, data, modelCalls,
                   price_in, price_out, price_pc, dbVars>>

\* lines 113-118
StageB ==
    /\ pc = "stageB"
    /\ stages' = Append(stages, "B")
    /\ LET r == ManualCleanup(content) IN
       IF r.ok THEN ret' = r.val /\ pc' = "returned"
       ELSE ret' = ret /\ pc' = "stageC"
    /\ UNCHANGED <<doc, clean_text, sent, content, data, modelCalls, validations,
                   price_in, price_out, price_pc, dbVars>>

\* line 119
StageC ==
    /\ pc = "stageC"
    /\ stages' = Append(stages, "C")
    /\ ret' = ErrorRecord
    /\ pc' = "returned"
    /\ UNCHANGED <<doc, clean_text, sent, content, data, modelCalls, validations,
                   price_in, price_out, price_pc, dbVars>>

\* new_request, lines 148-152: data.update raises on a list or a str
Render_template ==
    /\ pc = "returned"
    /\ IF ~Truthy(ret) THEN data' = data /\ pc' = "rendered"
       ELSE IF ret.t = "obj" THEN data' = DictUpdate(data, ret.v) /\ pc' = "rendered"
       ELSE data' = data /\ pc' = "update raised"
    /\ UNCHANGED <<doc, clean_text, sent, content, ret, modelCalls, validations,
                   stages, price_in, price_out, price_pc, dbVars>>

Next ==
    \/ \E d \in Documents : Upload(d)
    \/ \E r \in Responses : ModelCallReturns(r)
    \/ ModelCallRaises
    \/ StageA
    \/ StageB
    \/ StageC
    \/ Render_template

Spec == Init /\ [][Next]_vars

(***************************************************************************)
(* normalize_price applied to each input.                                  *)
(***************************************************************************)
PriceInit ==
    /\ pc = "idle"
    /\ doc = NoDocument
    /\ clean_text = <<>>
    /\ sent = NoResponse
    /\ content = <<>>
    /\ ret = None
    /\ data = FormDefaults
    /\ modelCalls = 0
    /\ validations = 0
    /\ stages = <<>>
    /\ price_in \in PriceInputs
    /\ price_out = Zero
    /\ price_pc = "ready"
    /\ dbIdle

NormalizePrice ==
    /\ price_pc = "ready"
    /\ price_out' = normalize_price(price_in)
    /\ price_pc' = "done"
    /\ UNCHANGED <<pc, doc, clean_text, sent, content, ret, data, modelCalls,
                   validations, stages, price_in, dbVars>>

PriceNext == NormalizePrice

SpecPrice == PriceInit /\ [][PriceNext]_vars

(***************************************************************************)
(* Concurrent update_status requests on the SQLite database.  Each call    *)
(* opens its own connection.  sqlite3 begins a transaction before the      *)
(* UPDATE, which takes the database's write lock and keeps it until the    *)
(* commit; a second writer waits for the lock or gives up with "database   *)
(* is locked".  A call that raises never commits: its connection is        *)
(* dropped and its transaction rolled back.  get_db_connection leaves      *)
(* SQLite's foreign_keys pragma at its default, off, so the FOREIGN KEY    *)
(* of status_history is not enforced.                                      *)
(***************************************************************************)
\* request.json.get('status'): the statuses of db_setup.py, or None
Statuses == {"In Progress", "Closed"}

NoStatus == "<None>"

RequestIds == 1..MaxRequests

SetCall(c, rec) == [calls EXCEPT ![c] = rec]

\* UPDATE requests SET status = ? WHERE request_id = ?
UpdateRequests(rows, id, st) ==
    [r \in DOMAIN rows |-> IF r = id THEN st ELSE rows[r]]

\* new_request, lines 154-170: the form is saved, INSERT and commit; the
\* request_id is the next AUTOINCREMENT value, the status 'Open'
SubmitRequest ==
    /\ pc = "idle"
    /\ db_lock = 0
    /\ Len(requests) < MaxRequests
    /\ requests' = Append(requests, "Open")
    /\ UNCHANGED <<pc, doc, clean_text, sent, content, ret, data, modelCalls,
                   validations, stages, price_in, price_out, price_pc,
                   status_history, db_lock, txn, calls>>

\* update_status, lines 175-178: the request arrives, the connection is opened
StatusRequest(c, id, st) ==
    /\ calls[c].pc = "idle"
    /\ calls' = SetCall(c, [pc |-> "update", req_id |-> id, new_status |-> st,
                            user |-> "Procurement Manager"])
    /\ UNCHANGED <<pc, doc, clean_text, sent, content, ret, data, modelCalls,
                   validations, stages, price_in, price_out, price_pc,
                   requests, status_history, db_lock, txn>>

\* line 179: the UPDATE, once the write lock is free.  status is NOT NULL:
\* a None status on a row that exists raises IntegrityError
ExecUpdate(c) ==
    /\ calls[c].pc = "update"
    /\ db_lock = 0
    /\ IF calls[c].new_status = NoStatus /\ calls[c].req_id \in DOMAIN requests
       THEN /\ calls' = SetCall(c, [calls[c] EXCEPT !.pc = "raised"])
            /\ UNCHANGED <<db_lock, txn>>
       ELSE /\ db_lock' = c
            /\ txn' = [requests |-> UpdateRequests(requests, calls[c].req_id,
                                                    calls[c].new_status),
                       status_history |-> status_history]
            /\ calls' = SetCall(c, [calls[c] EXCEPT !.pc = "insert"])
    /\ UNCHANGED <<pc, doc, clean_text, sent, content, ret, data, modelCalls,
                   validations, stages, price_in, price_out, price_pc,
                   requests, status_history>>

\* line 179: the wait for the write lock times out, OperationalError
UpdateLocked(c) ==
    /\ calls[c].pc = "update"
    /\ db_lock # 0
    /\ calls' = SetCall(c, [calls[c] EXCEPT !.pc = "raised"])
    /\ UNCHANGED <<pc, doc, clean_text, sent, content, ret, data, modelCalls,
                   validations, stages, price_in, price_out, price_pc,
                   requests, status_history, db_lock, txn>>

\* lines 180-183: the INSERT into status_history.  new_status is NOT NULL: a
\* None status raises IntegrityError and the transaction is rolled back
ExecInsert(c) ==
    /\ calls[c].pc = "insert"
    /\ db_lock = c
    /\ IF calls[c].new_status = NoStatus
       THEN /\ calls' = SetCall(c, [calls[c] EXCEPT !.pc = "raised"])
            /\ db_lock' = 0
            /\ txn' = NoTxn
       ELSE /\ txn' = [txn EXCEPT !.status_history =
                          Append(@, [request_id |-> calls[c].req_id,
                                     new_status |-> calls[c].new_status,
                                     changer_user |-> calls[c].user])]
            /\ calls' = SetCall(c, [calls[c] EXCEPT !.pc = "commit"])
            /\ UNCHANGED db_lock
    /\ UNCHANGED <<pc, doc, clean_text, sent, content, ret, data, modelCalls,
                   validations, stages, price_in, price_out, price_pc,
                   requests, status_history>>

\* lines 184-186: commit, close, {"success": true}
Commit(c) ==
    /\ calls[c].pc = "commit"
    /\ db_lock = c
    /\ requests' = txn.requests
    /\ status_history' = txn.status_history
    /\ db_lock' = 0
    /\ txn' = NoTxn
    /\ calls' = SetCall(c, [calls[c] EXCEPT !.pc = "done"])
    /\ UNCHANGED <<pc, doc, clean_text, sent, content, ret, data, modelCalls,
                   validations, stages, price_in, price_out, price_pc>>

StatusInit ==
    /\ pc = "idle"
    /\ doc = NoDocument
    /\ clean_text = <<>>
    /\ sent = NoResponse
    /\ content = <<>>
    /\ ret = None
    /\ data = FormDefaults
    /\ modelCalls = 0
    /\ validations = 0
    /\ stages = <<>>
    /\ priceIdle
    /\ dbIdle

StatusNext ==
    \/ SubmitRequest
    \/ \E c \in Calls, id \in RequestIds, st \in Statuses \cup {NoStatus} :
            StatusRequest(c, id, st)
    \/ \E c \in Calls : ExecUpdate(c)
    \/ \E c \in Calls : UpdateLocked(c)
    \/ \E c \in Calls : ExecInsert(c)
    \/ \E c \in Calls : Commit(c)

SpecStatus == StatusInit /\ [][StatusNext]_vars

(***************************************************************************)
(* The claims.                                                             *)
(***************************************************************************)
HasValue(r, k, x) == Has(r, k) /\ r.v[k] = x

\* the cleaned response as JSON
Candidate == json_loads(content)

\* C1: extract_data_via_ai never raises to its caller: when the model call
\* itself fails, the run still ends by returning a record.
C1_NeverRaises == sent = CallFailed => (pc # "raised" /\ ret # None)

\* C2: when Stage A and Stage B both fail, the record returned is the fixed
\* default: requestor_name 'Vladimir Keil', title 'Extraction Error',
\* vendor_name 'Unknown', total_cost 0.0, no order lines, an empty
\* extracted_description_text, whatever the response was.
C2_FixedDefault ==
    (pc = "returned" /\ stages = <<"A", "B", "C">>) =>
        /\ HasValue(ret, "requestor_name", Str(<<"Vladimir Keil">>))
        /\ HasValue(ret, "title", Str(<<"Extraction Error">>))
        /\ HasValue(ret, "vendor_name", Str(<<"Unknown">>))
        /\ HasValue(ret, "total_cost", Num(0))
        /\ HasValue(ret, "order_lines", Arr(<<>>))
        /\ HasValue(ret, "extracted_description_text", Str(<<>>))

Misnamed == {"item", "price", "quantity", "total"}

Renamed(k) ==
    CASE k = "item" -> "description"
      [] k = "price" -> "unit_price"
      [] k = "quantity" -> "amount"
      [] k = "total" -> "total_price"
      [] OTHER -> k

\* a line keyed item, price, quantity, total and by none of the right names
MisnamedLine(l) ==
    /\ l.t = "obj"
    /\ Misnamed \subseteq DOMAIN l.v
    /\ \A k \in Misnamed : Renamed(k) \notin DOMAIN l.v

RenamedLine(l) ==
    Obj([k \in {Renamed(j) : j \in DOMAIN l.v} |->
            l.v[CHOOSE j \in DOMAIN l.v : Renamed(j) = k]])

\* C3: a JSON object with its lines under 'items' (no 'order_lines'), each
\* keyed item, price, quantity, total, comes back from Stage B with the same
\* lines in the same order under 'order_lines', the four keys renamed to
\* description, unit_price, amount, total_price, and no old key left.
C3_ItemsRepaired ==
    (/\ pc = "returned"
     /\ Candidate.ok
     /\ Has(Candidate.val, "items")
     /\ ~Has(Candidate.val, "order_lines")
     /\ Candidate.val.v["items"].t = "arr"
     /\ \A i \in 1..Len(Candidate.val.v["items"].v) :
            MisnamedLine(Candidate.val.v["items"].v[i]))
    => /\ stages = <<"A", "B">>
       /\ ~Has(ret, "items")
       /\ HasValue(ret, "order_lines",
                   Arr([i \in 1..Len(Candidate.val.v["items"].v) |->
                            RenamedLine(Candidate.val.v["items"].v[i])]))

Vocabulary == {COMMODITY_GROUPS[i] : i \in 1..Len(COMMODITY_GROUPS)}

InVocabulary(x) == x.t = "str" /\ Flatten(x.v) \in Vocabulary

\* C4: Stage A accepts a candidate only if its commodity_group is one of the
\* 50 strings of the vocabulary, and no record returned by Stage A carries a
\* commodity_group outside it.
C4_GroupChecked ==
    (pc = "returned" /\ stages = <<"A">>) =>
        /\ Has(Candidate.val, "commodity_group") =>
                InVocabulary(Candidate.val.v["commodity_group"])
        /\ Has(ret, "commodity_group") => InVocabulary(ret.v["commodity_group"])

Blank(text) == \A i \in 1..Len(text) : IsSpace(text[i])

\* the document yields no text: the reader fails, or none of the pages read
\* holds anything but blanks
NoText(d) ==
    \/ ~d.ok
    \/ \A i \in 1..Len(d.pages) : i <= PAGE_LIMIT => Blank(d.pages[i])

\* C5: when the uploaded document yields no text, the upload handler issues
\* no model call and renders the default form data, every field unchanged.
C5_NoTextNoCall ==
    (doc # NoDocument /\ NoText(doc)) =>
        /\ pc = "rendered"
        /\ modelCalls = 0
        /\ sent = NoResponse
        /\ data = FormDefaults

\* C5, its case: a parsed document with a page of blanks and no text on the
\* pages read has been rendered.
C5_Witness ==
    /\ pc = "rendered"
    /\ doc.ok
    /\ NoText(doc)
    /\ \E i \in 1..Len(doc.pages) : i <= PAGE_LIMIT /\ doc.pages[i] = <<" ">>

InterfaceFields ==
    {"requestor_name", "title", "vendor_name", "vat_id", "total_cost", "department",
     "extracted_description_text", "order_lines", "commodity_group"}

\* C6: whichever stage produced it, the value extract_data_via_ai returns is
\* a record with all nine interface fields.
C6_NineFields ==
    pc = "returned" => (ret.t = "obj" /\ InterfaceFields \subseteq DOMAIN ret.v)

\* C7: a schema-valid payload inside a code fence (labelled json or not)
\* gives the record the payload alone gives, also when a field value holds
\* the word json or a fence.
C7_FenceTransparent ==
    (pc = "returned" /\ sent.kind = "valid" /\ sent.wrap \in {"json fence", "fence"})
    => ret = ExtractReturn(Render(sent.payload))

\* the number a settled price string denotes, 0.0 when it denotes none
AsNumber(a) ==
    LET r == float(Remove(a, " ")) IN IF r.ok THEN r.val ELSE Zero

\* periods are thousands separators, the comma is the decimal point
European(a) == AsNumber(Replace(Remove(a, "."), ",", "."))

\* commas are thousands separators, the period is the decimal point
American(a) == AsNumber(Remove(a, ","))

BothSeparators ==
    /\ price_pc = "done"
    /\ ~price_in.none
    /\ Contains(price_in.s, ",")
    /\ Contains(price_in.s, ".")

\* C8, as amended: for an input with a comma and a period, if the rightmost
\* period occurs before the rightmost comma, periods are removed and the
\* comma is the decimal point; otherwise commas are removed and the period
\* is the decimal point.
C8_PeriodBeforeCommaIsEuropean ==
    BothSeparators =>
        LET a == StripCurrency(price_in.s) IN
        price_out = IF RFind(price_in.s, ".") < RFind(price_in.s, ",")
                    THEN European(a) ELSE American(a)

\* C8, as stated: if the rightmost period occurs after the rightmost comma,
\* periods are removed and the comma is the decimal point; otherwise commas
\* are removed and the period is the decimal point.
C8_PeriodAfterCommaIsEuropean ==
    BothSeparators =>
        LET a == StripCurrency(price_in.s) IN
        price_out = IF RFind(price_in.s, ".") > RFind(price_in.s, ",")
                    THEN European(a) ELSE American(a)

\* C8, its case: '1.0,1' has been normalised, to 10.1
C8_Witness ==
    /\ BothSeparators
    /\ price_in.s = <<"1", ".", "0", ",", "1">>
    /\ price_out = Float(101, 1)

\* C9: every run of extract_data_via_ai issues exactly one model call and
\* one schema validation, runs the stages in the order A, B, C, each after
\* the one before failed, and ends by returning the record of the first
\* stage that succeeds.
C9_OneCallOnePass ==
    pc \in {"returned", "raised"} =>
        /\ modelCalls = 1
        /\ validations = 1
        /\ stages \in {<<"A">>, <<"A", "B">>, <<"A", "B", "C">>}
        /\ pc = "returned"
        /\ ret = ExtractReturn(sent.raw)

RightNames == {"description", "unit_price", "amount", "total_price"}

\* a line of the response keeps the values of its rightly named keys
LineKept(before, after) ==
    before.t = "obj" =>
        \A k \in RightNames : k \in DOMAIN before.v => HasValue(after, k, before.v[k])

\* C10: Stage B never overwrites a rightly named key that is present: with
\* 'items' and 'order_lines' both in the JSON, or a misnamed key and its
\* right counterpart both in a line, the rightly named key keeps its value.
C10_NoOverwrite ==
    (pc = "returned" /\ stages = <<"A", "B">> /\ Has(Candidate.val, "order_lines"))
    => LET before == Candidate.val.v["order_lines"] IN
       IF Has(Candidate.val, "items")
       THEN HasValue(ret, "order_lines", before)
       ELSE /\ Has(ret, "order_lines")
            /\ before.t = "arr" =>
                 /\ ret.v["order_lines"].t = "arr"
                 /\ Len(ret.v["order_lines"].v) = Len(before.v)
                 /\ \A i \in 1..Len(before.v) :
                        LineKept(before.v[i], ret.v["order_lines"].v[i])

\* the history rows of request r, by history_id
HistoryOf(r) == {i \in 1..Len(status_history) : status_history[i].request_id = r}

LastHistoryOf(r) == CHOOSE i \in HistoryOf(r) : \A j \in HistoryOf(r) : j <= i

\* every status_history row refers to a request of the requests table
HistoryRefersToRequests ==
    \A i \in 1..Len(status_history) : status_history[i].request_id \in DOMAIN requests

\* a request with history has the status of its latest history row
StatusIsLatestHistory ==
    \A r \in DOMAIN requests :
        HistoryOf(r) # {} => requests[r] = status_history[LastHistoryOf(r)].new_status

\* C11: after any interleaving of concurrent update_status calls, every
\* status_history row refers to a request that exists in the requests table,
\* and every request with history has the status of its most recently
\* inserted history row.
C11_HistoryConsistent == HistoryRefersToRequests /\ StatusIsLatestHistory

=============================================================================
